---- MODULE Spec2Model ----
(***************************************************************************)
(* The supervisor of the fancy service (service/src/main.rs): startup,     *)
(* the signal listener, the temperature-sampling task, the manager task    *)
(* with its detached shutdown forwarder, the joins and the final save.     *)
(*                                                                         *)
(* The shutdown channel is async_std::channel::bounded(1): a multi-        *)
(* producer multi-consumer queue.  A message is taken by exactly one of    *)
(* the receivers; the channel is closed once every sender or every         *)
(* receiver is dropped; recv on a closed, empty channel is a RecvError.    *)
(* The process ends when main returns, so no task steps after that.        *)
(***************************************************************************)
EXTENDS Integers, Sequences, FiniteSets, TLC

(* ------------------------------ bounds --------------------------------- *)
\* signals the environment delivers over a run
MaxSignals == 2
\* commands the message-bus clients issue over a run
MaxCommands == 1
\* capacity of the manager's event channel
EvCap == 1

(* ------------------------- program constants --------------------------- *)
\* channel::bounded(1): the capacity of the shutdown channel
ShutdownCap == 1

(* --------------------------- value domains ----------------------------- *)
SIGHUP == "SIGHUP"
SIGTERM == "SIGTERM"
SIGINT == "SIGINT"
SIGQUIT == "SIGQUIT"
\* the signals registered with Signals::new
Registered == {SIGHUP, SIGTERM, SIGINT, SIGQUIT}

\* EC access strategies, in the order try_default probes them
ModeOrder == <<"RawPort", "DevPort">>
Modes == {ModeOrder[i] : i \in 1..Len(ModeOrder)}

\* loader.current_config is an Option: NoCurrent is None
NoCurrent == "<none>"
ConfigNames == {"Default"}
\* temperatures get_temp can yield (degrees Celsius)
TempValues == {40, 72}
\* target speeds in tenths of a percent: [42.0, 55.5] is <<420, 555>>
SpeedLists == {<<>>, <<420, 555>>, <<300, 300>>, <<800, 800>>}

\* the built-in configuration of Config::default()
DefaultConfig ==
    [ec_access_mode |-> "RawPort", only |-> "all",
     selected_fan_configuration |-> "", target_speeds |-> <<>>]
\* what a configuration file on disk may hold
DiskConfigs ==
    {[ec_access_mode |-> "DevPort", only |-> "cpu",
      selected_fan_configuration |-> "Silent", target_speeds |-> <<300, 800>>]}

VARIABLES
    main_pc,        \* where main is
    main_res,       \* what main returned ("none" while running)
    config,         \* main's `config`
    disk,           \* the stored configuration: <<>> (none loadable),
                    \* or <<cfg>>
    saved,          \* save_config has written the stored configuration
    mode,           \* main's `mode` (ec_device.mode())
    ec_owner,       \* who holds the EcAccess handle
    ec_users,       \* the tasks inside an EC Access operation, in order of entry
    ec_avail,       \* the EC access strategies that open on this machine
    target_speeds,  \* main's `target_speeds` (the manager task's output)
    sig_registered, \* Signals::new has registered the handlers
    sigq,           \* the signal stream: the signals pending, not yet taken
                    \* by next() (a signal delivered again while it is
                    \* pending is coalesced)
    sig_pc, sig_cur, sig_closed, sig_res,
    hups,           \* SIGHUPs the listener has matched
    terms,          \* SIGTERMs, SIGINTs and SIGQUITs the listener has matched
    sent,           \* shutdown messages sent on the shutdown channel
    shutdown_q,     \* the shutdown channel's buffer (capacity 1)
    tx_alive,       \* shutdown_tx is not dropped yet
    rx_holders,     \* who holds a clone of shutdown_rx
    t_pc, t_res, t_temp,
    f_pc, f_res,
    m_pc, m_res, m_cur, m_out,
    mgr_auto, mgr_config, mgr_targets,
    ev_q,           \* the manager's event channel
    loader_cur,     \* loader.current_config
    commands        \* commands issued so far

vars ==
    <<main_pc, main_res, config, disk, saved, mode, ec_owner, ec_users,
      ec_avail, target_speeds, sig_registered, sigq, sig_pc, sig_cur,
      sig_closed, sig_res, hups, terms, sent, shutdown_q, tx_alive,
      rx_holders,
      t_pc, t_res, t_temp, f_pc, f_res, m_pc, m_res, m_cur, m_out,
      mgr_auto, mgr_config, mgr_targets, ev_q, loader_cur, commands>>

main_vars == <<main_pc, main_res, config, disk, saved, mode, target_speeds>>
sig_vars == <<sig_pc, sig_cur, sig_closed, sig_res, hups, terms, sent>>
env_sig_vars == <<sig_registered, sigq>>
chan_vars == <<shutdown_q, tx_alive, rx_holders>>
temps_vars == <<t_pc, t_res, t_temp>>
fwd_vars == <<f_pc, f_res>>
mgr_vars == <<m_pc, m_res, m_cur, m_out, mgr_auto, mgr_config, mgr_targets>>
ec_vars == <<ec_owner, ec_users, ec_avail>>
bus_vars == <<loader_cur, commands>>

(* ------------------------- the shutdown channel ------------------------ *)
\* closed once every Sender or every Receiver is dropped
ChanClosed(tx, holders) == ~tx \/ holders = {}

\* the process is alive: main has not returned
Running == main_pc # "done"

(* -------------------------------- Init --------------------------------- *)
Init ==
    /\ main_pc = "load_config" /\ main_res = "none"
    /\ config = DefaultConfig
    /\ disk \in {<<>>} \cup {<<c>> : c \in DiskConfigs}
    /\ saved = FALSE
    /\ mode = "none"
    /\ ec_owner = "none" /\ ec_users = <<>>
    /\ ec_avail \in SUBSET Modes
    /\ target_speeds = <<>>
    /\ sig_registered = FALSE /\ sigq = {}
    /\ sig_pc = "unspawned" /\ sig_cur = "none" /\ sig_closed = FALSE
    /\ sig_res = "none" /\ hups = 0 /\ terms = 0 /\ sent = 0
    /\ shutdown_q = <<>> /\ tx_alive = FALSE /\ rx_holders = {}
    /\ t_pc = "unspawned" /\ t_res = "none" /\ t_temp = 0
    /\ f_pc = "unspawned" /\ f_res = "none"
    /\ m_pc = "unspawned" /\ m_res = "none" /\ m_cur = <<"none">>
    /\ m_out = <<>>
    /\ mgr_auto = TRUE /\ mgr_config = NoCurrent /\ mgr_targets = <<>>
    /\ ev_q = <<>>
    /\ loader_cur = NoCurrent /\ commands = 0

(* ------------------------------- startup ------------------------------- *)
\* Config::load_config().await.unwrap_or_else(|_| Config::default())
LoadedConfig(d) == IF d # <<>> THEN d[1] ELSE DefaultConfig

\* a load error returned with `?` instead of replaced by the default
main_load_config_LoadErrorFatal ==
    /\ main_pc = "load_config"
    /\ IF disk = <<>>
       THEN /\ main_pc' = "done" /\ main_res' = "ConfigErr"
            /\ config' = config
       ELSE /\ main_pc' = "dbus" /\ main_res' = main_res
            /\ config' = disk[1]
    /\ UNCHANGED <<disk, saved, mode, target_speeds>>
    /\ UNCHANGED <<sig_vars, env_sig_vars, chan_vars, temps_vars, fwd_vars,
                   mgr_vars, ec_vars, bus_vars, ev_q>>

main_load_config ==
    /\ main_pc = "load_config"
    /\ config' = LoadedConfig(disk)
    /\ main_pc' = "dbus"
    /\ UNCHANGED <<main_res, disk, saved, mode, target_speeds>>
    /\ UNCHANGED <<sig_vars, env_sig_vars, chan_vars, temps_vars, fwd_vars,
                   mgr_vars, ec_vars, bus_vars, ev_q>>

\* zbus::Connection::system() and request_name, each with `?`
main_dbus ==
    /\ main_pc = "dbus"
    /\ \E ok \in BOOLEAN :
         IF ok THEN main_pc' = "temps_new" /\ main_res' = main_res
               ELSE main_pc' = "done" /\ main_res' = "DBus"
    /\ UNCHANGED <<config, disk, saved, mode, target_speeds>>
    /\ UNCHANGED <<sig_vars, env_sig_vars, chan_vars, temps_vars, fwd_vars,
                   mgr_vars, ec_vars, bus_vars, ev_q>>

\* Temperatures::new(config.sensors.only.clone()) with `?`
main_temps_new ==
    /\ main_pc = "temps_new"
    /\ \E ok \in BOOLEAN :
         IF ok THEN main_pc' = "open_ec" /\ main_res' = main_res
               ELSE main_pc' = "done" /\ main_res' = "Sensor"
    /\ UNCHANGED <<config, disk, saved, mode, target_speeds>>
    /\ UNCHANGED <<sig_vars, env_sig_vars, chan_vars, temps_vars, fwd_vars,
                   mgr_vars, ec_vars, bus_vars, ev_q>>

\* EcAccess::try_default(): the first strategy of ModeOrder that opens
RECURSIVE TryDefaultFrom(_, _)
TryDefaultFrom(i, avail) ==
    IF i > Len(ModeOrder) THEN "none"
    ELSE IF ModeOrder[i] \in avail THEN ModeOrder[i]
    ELSE TryDefaultFrom(i + 1, avail)

\* the probing order tried before the configured mode
OpenedMode_DefaultFirst(m, avail) == TryDefaultFrom(1, avail)

\* EcAccess::from_mode(m).or_else(|_| EcAccess::try_default()): the mode of
\* the device opened, "none" when both fail
OpenedMode(m, avail) == IF m \in avail THEN m ELSE TryDefaultFrom(1, avail)

main_open_ec ==
    /\ main_pc = "open_ec"
    /\ LET opened == OpenedMode(config.ec_access_mode, ec_avail) IN
         IF opened = "none"
         THEN /\ main_pc' = "done" /\ main_res' = "OpenDev"
              /\ UNCHANGED <<mode, ec_owner>>
         ELSE /\ main_pc' = "signals_new" /\ main_res' = main_res
              /\ mode' = opened
              /\ ec_owner' = "main"
    /\ UNCHANGED <<config, disk, saved, target_speeds, ec_users, ec_avail>>
    /\ UNCHANGED <<sig_vars, env_sig_vars, chan_vars, temps_vars, fwd_vars,
                   mgr_vars, bus_vars, ev_q>>

\* Signals::new(..) with `?`, channel::bounded(1), signals.handle()
main_signals_new ==
    /\ main_pc = "signals_new"
    /\ \E ok \in BOOLEAN :
         IF ok
         THEN /\ main_pc' = "spawn_signal_handler" /\ main_res' = main_res
              /\ sig_registered' = TRUE
              /\ tx_alive' = TRUE /\ rx_holders' = {"main"}
         ELSE /\ main_pc' = "done" /\ main_res' = "Signal"
              /\ UNCHANGED <<sig_registered, tx_alive, rx_holders>>
    /\ UNCHANGED <<config, disk, saved, mode, target_speeds, sigq,
                   shutdown_q>>
    /\ UNCHANGED <<sig_vars, temps_vars, fwd_vars, mgr_vars, ec_vars,
                   bus_vars, ev_q>>

\* task::spawn of the signal listener
main_spawn_signal_handler ==
    /\ main_pc = "spawn_signal_handler"
    /\ sig_pc' = "next"
    /\ main_pc' = "new_manager"
    /\ UNCHANGED <<main_res, config, disk, saved, mode, target_speeds>>
    /\ UNCHANGED <<sig_cur, sig_closed, sig_res, hups, terms, sent>>
    /\ UNCHANGED <<env_sig_vars, chan_vars, temps_vars, fwd_vars, mgr_vars,
                   ec_vars, bus_vars, ev_q>>

\* ECManager::new(ec_device, ..) takes the handle; Loader::new; the loader is
\* registered at the object server with `?`
main_new_manager ==
    /\ main_pc = "new_manager"
    /\ ec_owner' = "manager"
    /\ \E ok \in BOOLEAN :
         IF ok THEN main_pc' = "spawn_temps_task" /\ main_res' = main_res
               ELSE main_pc' = "done" /\ main_res' = "DBus"
    /\ UNCHANGED <<config, disk, saved, mode, target_speeds, ec_users, ec_avail>>
    /\ UNCHANGED <<sig_vars, env_sig_vars, chan_vars, temps_vars, fwd_vars,
                   mgr_vars, bus_vars, ev_q>>

\* shutdown_rx.clone(), manager.create_sender(), task::spawn of the sampler
main_spawn_temps_task ==
    /\ main_pc = "spawn_temps_task"
    /\ rx_holders' = rx_holders \cup {"temps"}
    /\ t_pc' = "recv"
    /\ main_pc' = "spawn_manager_task"
    /\ UNCHANGED <<main_res, config, disk, saved, mode, target_speeds>>
    /\ UNCHANGED <<t_res, t_temp, shutdown_q, tx_alive>>
    /\ UNCHANGED <<sig_vars, env_sig_vars, fwd_vars, mgr_vars, ec_vars,
                   bus_vars, ev_q>>

\* shutdown_rx.clone(), manager.create_sender(), task::spawn of the manager
\* task; the receiver clone moves into it and from there into the forwarder
main_spawn_manager_task ==
    /\ main_pc = "spawn_manager_task"
    /\ rx_holders' = rx_holders \cup {"fwd"}
    /\ m_pc' = "spawn_forwarder"
    /\ main_pc' = "join_signal_handler"
    /\ UNCHANGED <<main_res, config, disk, saved, mode, target_speeds>>
    /\ UNCHANGED <<m_res, m_cur, m_out, mgr_auto, mgr_config, mgr_targets>>
    /\ UNCHANGED <<shutdown_q, tx_alive>>
    /\ UNCHANGED <<sig_vars, env_sig_vars, temps_vars, fwd_vars, ec_vars,
                   bus_vars, ev_q>>

(* ------------------------- the signal listener ------------------------- *)
\* the signals the stream has been given so far
SignalsSeen ==
    hups + terms + Cardinality(sigq) + (IF sig_pc = "match" THEN 1 ELSE 0)

\* the operating system delivers a registered signal to the Signals stream
signal_deliver ==
    /\ Running /\ sig_registered /\ ~sig_closed
    /\ SignalsSeen < MaxSignals
    /\ \E s \in Registered \ sigq : sigq' = sigq \cup {s}
    /\ UNCHANGED <<sig_registered, main_vars, sig_vars, chan_vars, temps_vars,
                   fwd_vars, mgr_vars, ec_vars, bus_vars, ev_q>>

\* while let Some(sig) = signals.next().await: a closed, drained stream
\* yields None and the loop ends
signal_handler_next ==
    /\ Running /\ sig_pc = "next"
    /\ sigq # {} \/ sig_closed
    /\ IF sigq # {}
       THEN \E s \in sigq :
              sig_cur' = s /\ sigq' = sigq \ {s} /\ sig_pc' = "match"
       ELSE sig_cur' = sig_cur /\ sigq' = sigq /\ sig_pc' = "return"
    /\ UNCHANGED <<sig_closed, sig_res, hups, terms, sent, sig_registered>>
    /\ UNCHANGED <<main_vars, chan_vars, temps_vars, fwd_vars, mgr_vars,
                   ec_vars, bus_vars, ev_q>>

\* the match with SIGHUP in the shutdown arm
signal_handler_match_HangupShutsDown ==
    /\ Running /\ sig_pc = "match"
    /\ sig_pc' = IF sig_cur \in {SIGHUP, SIGTERM, SIGINT, SIGQUIT} THEN "send"
                 ELSE "next"
    /\ hups' = IF sig_cur = SIGHUP THEN hups + 1 ELSE hups
    /\ terms' = IF sig_cur \in {SIGTERM, SIGINT, SIGQUIT} THEN terms + 1
                ELSE terms
    /\ sig_cur' = "none"
    /\ UNCHANGED <<sig_closed, sig_res, sent>>
    /\ UNCHANGED <<main_vars, env_sig_vars, chan_vars, temps_vars, fwd_vars,
                   mgr_vars, ec_vars, bus_vars, ev_q>>

\* match sig { SIGHUP => {}, SIGTERM | SIGINT | SIGQUIT => .., _ => {} }
signal_handler_match ==
    /\ Running /\ sig_pc = "match"
    /\ sig_pc' = IF sig_cur \in {SIGTERM, SIGINT, SIGQUIT} THEN "send"
                 ELSE "next"
    /\ hups' = IF sig_cur = SIGHUP THEN hups + 1 ELSE hups
    /\ terms' = IF sig_cur \in {SIGTERM, SIGINT, SIGQUIT} THEN terms + 1
                ELSE terms
    /\ sig_cur' = "none"
    /\ UNCHANGED <<sig_closed, sig_res, sent>>
    /\ UNCHANGED <<main_vars, env_sig_vars, chan_vars, temps_vars, fwd_vars,
                   mgr_vars, ec_vars, bus_vars, ev_q>>

\* shutdown_tx.send(true).await.context(ShutdownChannelSendSnafu)?
\* a closed channel is a SendError and ends the task; a full one blocks
signal_handler_send ==
    /\ Running /\ sig_pc = "send"
    /\ IF ChanClosed(tx_alive, rx_holders)
       THEN /\ sig_pc' = "done" /\ sig_res' = "ShutdownChannelSend"
            /\ tx_alive' = FALSE
            /\ UNCHANGED <<shutdown_q, sent>>
       ELSE /\ Len(shutdown_q) < ShutdownCap
            /\ shutdown_q' = Append(shutdown_q, TRUE)
            /\ sent' = sent + 1
            /\ sig_pc' = "close"
            /\ UNCHANGED <<sig_res, tx_alive>>
    /\ UNCHANGED <<sig_cur, sig_closed, hups, terms, rx_holders>>
    /\ UNCHANGED <<main_vars, env_sig_vars, temps_vars, fwd_vars, mgr_vars,
                   ec_vars, bus_vars, ev_q>>

\* sig_handle.close() without the break: the loop goes on
signal_handler_close_NoBreak ==
    /\ Running /\ sig_pc = "close"
    /\ sig_closed' = TRUE
    /\ sig_pc' = "next"
    /\ UNCHANGED <<sig_cur, sig_res, hups, terms, sent>>
    /\ UNCHANGED <<main_vars, env_sig_vars, chan_vars, temps_vars, fwd_vars,
                   mgr_vars, ec_vars, bus_vars, ev_q>>

\* sig_handle.close(); break
signal_handler_close ==
    /\ Running /\ sig_pc = "close"
    /\ sig_closed' = TRUE
    /\ sig_pc' = "return"
    /\ UNCHANGED <<sig_cur, sig_res, hups, terms, sent>>
    /\ UNCHANGED <<main_vars, env_sig_vars, chan_vars, temps_vars, fwd_vars,
                   mgr_vars, ec_vars, bus_vars, ev_q>>

\* Ok::<_, ServiceError>(()): the task ends and drops shutdown_tx
signal_handler_return ==
    /\ Running /\ sig_pc = "return"
    /\ sig_pc' = "done" /\ sig_res' = "Ok"
    /\ tx_alive' = FALSE
    /\ UNCHANGED <<sig_cur, sig_closed, hups, terms, sent, shutdown_q,
                   rx_holders>>
    /\ UNCHANGED <<main_vars, env_sig_vars, temps_vars, fwd_vars, mgr_vars,
                   ec_vars, bus_vars, ev_q>>

(* -------------------------- the sampling task -------------------------- *)
\* the poll without the break: a received shutdown message starts a sample
temps_task_recv_SamplesOnShutdown ==
    /\ Running /\ t_pc = "recv"
    /\ IF shutdown_q # <<>>
       THEN /\ shutdown_q' = Tail(shutdown_q)
            /\ t_pc' = "get_temp"
            /\ UNCHANGED <<t_res, rx_holders>>
       ELSE IF ChanClosed(tx_alive, rx_holders)
       THEN /\ t_pc' = "done" /\ t_res' = "ShutdownChannelRecv"
            /\ rx_holders' = rx_holders \ {"temps"}
            /\ UNCHANGED shutdown_q
       ELSE /\ t_pc' = "get_temp"
            /\ UNCHANGED <<t_res, rx_holders, shutdown_q>>
    /\ UNCHANGED <<t_temp, tx_alive>>
    /\ UNCHANGED <<main_vars, sig_vars, env_sig_vars, fwd_vars, mgr_vars,
                   ec_vars, bus_vars, ev_q>>

\* future::timeout(100 ms, shutdown_recv.recv()): a buffered message is
\* received; a closed, empty channel is a RecvError (`?` ends the task);
\* otherwise the recv stays pending and the timeout elapses
temps_task_recv ==
    /\ Running /\ t_pc = "recv"
    /\ IF shutdown_q # <<>>
       THEN /\ shutdown_q' = Tail(shutdown_q)
            /\ IF Head(shutdown_q)
               THEN /\ t_pc' = "done" /\ t_res' = "Ok"
                    /\ rx_holders' = rx_holders \ {"temps"}
               ELSE UNCHANGED <<t_pc, t_res, rx_holders>>
       ELSE IF ChanClosed(tx_alive, rx_holders)
       THEN /\ t_pc' = "done" /\ t_res' = "ShutdownChannelRecv"
            /\ rx_holders' = rx_holders \ {"temps"}
            /\ UNCHANGED shutdown_q
       ELSE /\ t_pc' = "get_temp"
            /\ UNCHANGED <<t_res, rx_holders, shutdown_q>>
    /\ UNCHANGED <<t_temp, tx_alive>>
    /\ UNCHANGED <<main_vars, sig_vars, env_sig_vars, fwd_vars, mgr_vars,
                   ec_vars, bus_vars, ev_q>>

\* temps.get_temp().await.context(SensorSnafu {})?
temps_task_get_temp ==
    /\ Running /\ t_pc = "get_temp"
    /\ \E ok \in BOOLEAN, v \in TempValues :
         IF ok
         THEN /\ t_temp' = v /\ t_pc' = "send_event"
              /\ UNCHANGED <<t_res, rx_holders>>
         ELSE /\ t_pc' = "done" /\ t_res' = "Sensor"
              /\ rx_holders' = rx_holders \ {"temps"}
              /\ UNCHANGED t_temp
    /\ UNCHANGED <<shutdown_q, tx_alive>>
    /\ UNCHANGED <<main_vars, sig_vars, env_sig_vars, fwd_vars, mgr_vars,
                   ec_vars, bus_vars, ev_q>>

\* EventSender::send_event: waits while the event channel is full; the
\* result is discarded, so an event for a manager that is gone is dropped
SendEvent(q, e) == IF m_pc = "done" THEN q ELSE Append(q, e)
CanSendEvent(q) == m_pc = "done" \/ Len(q) < EvCap

\* the sampler applying the sample to the EC itself instead of sending it
temps_task_send_event_WritesEc ==
    /\ Running /\ t_pc = "send_event"
    /\ ec_users' = Append(ec_users, "temps")
    /\ t_pc' = "recv" /\ t_temp' = 0
    /\ UNCHANGED <<t_res, ec_owner, ec_avail, ev_q>>
    /\ UNCHANGED <<main_vars, sig_vars, env_sig_vars, chan_vars, fwd_vars,
                   mgr_vars, bus_vars>>

\* ev_sender.send_event(Event::External(ExternalEvent::TempChange(temp)))
temps_task_send_event ==
    /\ Running /\ t_pc = "send_event"
    /\ CanSendEvent(ev_q)
    /\ ev_q' = SendEvent(ev_q, <<"TempChange", t_temp>>)
    /\ t_pc' = "recv" /\ t_temp' = 0
    /\ UNCHANGED t_res
    /\ UNCHANGED <<main_vars, sig_vars, env_sig_vars, chan_vars, fwd_vars,
                   mgr_vars, ec_vars, bus_vars>>

(* ----------------------- the shutdown forwarder ------------------------ *)
\* the forwarder's recv without `?`: a RecvError is taken for the message
forwarder_recv_IgnoresRecvError ==
    /\ Running /\ f_pc = "recv"
    /\ shutdown_q # <<>> \/ ChanClosed(tx_alive, rx_holders)
    /\ shutdown_q' = IF shutdown_q # <<>> THEN Tail(shutdown_q) ELSE shutdown_q
    /\ f_pc' = "send_event"
    /\ UNCHANGED <<f_res, rx_holders, tx_alive>>
    /\ UNCHANGED <<main_vars, sig_vars, env_sig_vars, temps_vars, mgr_vars,
                   ec_vars, bus_vars, ev_q>>

\* shutdown_recv.recv().await.context(ShutdownChannelRecvSnafu)? in a
\* detached task: nobody reads its result
forwarder_recv ==
    /\ Running /\ f_pc = "recv"
    /\ shutdown_q # <<>> \/ ChanClosed(tx_alive, rx_holders)
    /\ IF shutdown_q # <<>>
       THEN /\ shutdown_q' = Tail(shutdown_q)
            /\ f_pc' = "send_event"
            /\ UNCHANGED <<f_res, rx_holders>>
       ELSE /\ f_pc' = "done" /\ f_res' = "ShutdownChannelRecv"
            /\ rx_holders' = rx_holders \ {"fwd"}
            /\ UNCHANGED shutdown_q
    /\ UNCHANGED tx_alive
    /\ UNCHANGED <<main_vars, sig_vars, env_sig_vars, temps_vars, mgr_vars,
                   ec_vars, bus_vars, ev_q>>

\* ev_sender.send_event(Event::External(ExternalEvent::Shutdown)).await; Ok
forwarder_send_event ==
    /\ Running /\ f_pc = "send_event"
    /\ CanSendEvent(ev_q)
    /\ ev_q' = SendEvent(ev_q, <<"Shutdown">>)
    /\ f_pc' = "done" /\ f_res' = "Ok"
    /\ rx_holders' = rx_holders \ {"fwd"}
    /\ UNCHANGED <<shutdown_q, tx_alive>>
    /\ UNCHANGED <<main_vars, sig_vars, env_sig_vars, temps_vars, mgr_vars,
                   ec_vars, bus_vars>>

(* --------------------------- the manager task -------------------------- *)
\* the fan curve: per fan, the speed of the highest band whose up-threshold
\* the temperature has reached, the lowest speed below every band
CurveSpeed(t) == IF t >= 70 THEN 800 ELSE 300
CurveSpeeds(t) == <<CurveSpeed(t), CurveSpeed(t)>>

\* whether handling event e writes to EC Access
NeedsEcWrite(e) ==
    IF e[1] = "TempChange"
    THEN mgr_auto /\ mgr_config # NoCurrent /\ CurveSpeeds(e[2]) # mgr_targets
    ELSE IF e[1] = "SetTargetSpeeds" THEN ~mgr_auto
    ELSE FALSE

\* task::spawn of the detached forwarder, first thing in the manager task
manager_task_spawn_forwarder ==
    /\ Running /\ m_pc = "spawn_forwarder"
    /\ f_pc' = "recv"
    /\ m_pc' = "event_loop"
    /\ UNCHANGED <<f_res, m_res, m_cur, m_out, mgr_auto, mgr_config,
                   mgr_targets>>
    /\ UNCHANGED <<main_vars, sig_vars, env_sig_vars, chan_vars, temps_vars,
                   ec_vars, bus_vars, ev_q>>

\* manager.event_handler(): take the next event; Shutdown ends the loop
manager_next_event ==
    /\ Running /\ m_pc = "event_loop"
    /\ ev_q # <<>>
    /\ ev_q' = Tail(ev_q)
    /\ IF Head(ev_q)[1] = "Shutdown"
       THEN m_pc' = "target_speeds" /\ m_cur' = m_cur
       ELSE m_pc' = "handle" /\ m_cur' = Head(ev_q)
    /\ UNCHANGED <<m_res, m_out, mgr_auto, mgr_config, mgr_targets>>
    /\ UNCHANGED <<main_vars, sig_vars, env_sig_vars, chan_vars, temps_vars,
                   fwd_vars, ec_vars, bus_vars>>

\* manager.event_handler(): apply the event; an event that changes a fan's
\* speed starts an EC Access write
manager_handle ==
    /\ Running /\ m_pc = "handle"
    /\ mgr_auto' = IF m_cur[1] = "SetAuto" THEN m_cur[2] ELSE mgr_auto
    /\ mgr_config' = IF m_cur[1] = "SetConfig" THEN m_cur[2] ELSE mgr_config
    /\ mgr_targets' = IF m_cur[1] = "SetTargetSpeeds" THEN m_cur[2]
                      ELSE mgr_targets
    /\ IF NeedsEcWrite(m_cur)
       THEN /\ ec_users' = Append(ec_users, "manager")
            /\ m_pc' = "ec_io" /\ m_cur' = m_cur
       ELSE /\ ec_users' = ec_users
            /\ m_pc' = "event_loop" /\ m_cur' = <<"none">>
    /\ UNCHANGED <<m_res, m_out, ec_owner, ec_avail>>
    /\ UNCHANGED <<main_vars, sig_vars, env_sig_vars, chan_vars, temps_vars,
                   fwd_vars, bus_vars, ev_q>>

\* the sequence without its first occurrence of x
RECURSIVE RemoveFirst(_, _)
RemoveFirst(q, x) ==
    IF q = <<>> THEN <<>>
    ELSE IF Head(q) = x THEN Tail(q)
    ELSE <<Head(q)>> \o RemoveFirst(Tail(q), x)

\* the EC Access write returns: Ok, or an error that event_handler returns
\* (`.context(ECIOSnafu)?` ends the manager task)
manager_ec_done ==
    /\ Running /\ m_pc = "ec_io"
    /\ ec_users' = RemoveFirst(ec_users, "manager")
    /\ \E ok \in BOOLEAN :
         IF ok
         THEN /\ mgr_targets' = IF m_cur[1] = "TempChange"
                                THEN CurveSpeeds(m_cur[2]) ELSE mgr_targets
              /\ m_pc' = "event_loop"
              /\ UNCHANGED m_res
         ELSE /\ m_pc' = "done" /\ m_res' = "ECIO"
              /\ UNCHANGED mgr_targets
    /\ m_cur' = <<"none">>
    /\ UNCHANGED <<m_out, mgr_auto, mgr_config, ec_owner, ec_avail>>
    /\ UNCHANGED <<main_vars, sig_vars, env_sig_vars, chan_vars, temps_vars,
                   fwd_vars, bus_vars, ev_q>>

\* manager.target_speeds().await.context(ECIOSnafu): the task's result
manager_target_speeds ==
    /\ Running /\ m_pc = "target_speeds"
    /\ \E ok \in BOOLEAN :
         IF ok THEN m_res' = "Ok" /\ m_out' = mgr_targets
               ELSE m_res' = "ECIO" /\ m_out' = m_out
    /\ m_pc' = "done"
    /\ UNCHANGED <<m_cur, mgr_auto, mgr_config, mgr_targets>>
    /\ UNCHANGED <<main_vars, sig_vars, env_sig_vars, chan_vars, temps_vars,
                   fwd_vars, ec_vars, bus_vars, ev_q>>

(* ------------------- the loader and command surface -------------------- *)
\* the events a message-bus call is turned into
CommandEvents ==
    {<<"SetAuto", FALSE>>}
      \cup {<<"SetConfig", n>> : n \in ConfigNames}
      \cup {<<"SetTargetSpeeds", <<420, 555>>>>}

\* the loader is on the object server
LoaderServed ==
    main_pc \in {"spawn_temps_task", "spawn_manager_task",
                 "join_signal_handler", "join_manager_task",
                 "join_temps_task", "save_config"}

\* a bus call: the event is enqueued on the manager's channel; loading a
\* configuration sets the loader's current configuration
bus_command ==
    /\ LoaderServed
    /\ commands < MaxCommands
    /\ CanSendEvent(ev_q)
    /\ \E e \in CommandEvents :
         /\ ev_q' = SendEvent(ev_q, e)
         /\ loader_cur' = IF e[1] = "SetConfig" THEN e[2] ELSE loader_cur
    /\ commands' = commands + 1
    /\ UNCHANGED <<main_vars, sig_vars, env_sig_vars, chan_vars, temps_vars,
                   fwd_vars, mgr_vars, ec_vars>>

(* -------------------------- joins and the save ------------------------- *)
\* main going on to the manager's join without awaiting the listener
main_join_signal_handler_NoWait ==
    /\ main_pc = "join_signal_handler"
    /\ main_pc' = "join_manager_task" /\ main_res' = main_res
    /\ UNCHANGED <<config, disk, saved, mode, target_speeds>>
    /\ UNCHANGED <<sig_vars, env_sig_vars, chan_vars, temps_vars, fwd_vars,
                   mgr_vars, ec_vars, bus_vars, ev_q>>

\* signal_handler.await?
main_join_signal_handler ==
    /\ main_pc = "join_signal_handler"
    /\ sig_pc = "done"
    /\ IF sig_res = "Ok"
       THEN main_pc' = "join_manager_task" /\ main_res' = main_res
       ELSE main_pc' = "done" /\ main_res' = sig_res
    /\ UNCHANGED <<config, disk, saved, mode, target_speeds>>
    /\ UNCHANGED <<sig_vars, env_sig_vars, chan_vars, temps_vars, fwd_vars,
                   mgr_vars, ec_vars, bus_vars, ev_q>>

\* let target_speeds = manager_task.await?
main_join_manager_task ==
    /\ main_pc = "join_manager_task"
    /\ m_pc = "done"
    /\ IF m_res = "Ok"
       THEN /\ main_pc' = "join_temps_task" /\ main_res' = main_res
            /\ target_speeds' = m_out
       ELSE /\ main_pc' = "done" /\ main_res' = m_res
            /\ UNCHANGED target_speeds
    /\ UNCHANGED <<config, disk, saved, mode>>
    /\ UNCHANGED <<sig_vars, env_sig_vars, chan_vars, temps_vars, fwd_vars,
                   mgr_vars, ec_vars, bus_vars, ev_q>>

\* the save without `config.core.ec_access_mode = mode`
SavedConfig_KeepsLoadedMode(cfg, current_config, speeds, md) ==
    [cfg EXCEPT
       !.selected_fan_configuration =
           IF current_config # NoCurrent THEN current_config ELSE @,
       !.target_speeds = IF speeds # <<>> THEN speeds ELSE @]

\* the save without the two guards: an absent current configuration and
\* an empty speed list overwrite the loaded values
SavedConfig_AlwaysOverwrites(cfg, current_config, speeds, md) ==
    [cfg EXCEPT
       !.selected_fan_configuration =
           IF current_config # NoCurrent THEN current_config ELSE "",
       !.target_speeds = speeds,
       !.ec_access_mode = md]

\* the configuration main hands to save_config
SavedConfig(cfg, current_config, speeds, md) ==
    [cfg EXCEPT
       !.selected_fan_configuration =
           IF current_config # NoCurrent THEN current_config ELSE @,
       !.target_speeds = IF speeds # <<>> THEN speeds ELSE @,
       !.ec_access_mode = md]

\* the interface lookup with `?`, the update of `config`, save_config with `?`
save_config ==
    \E lookup_ok, save_ok \in BOOLEAN :
      IF ~lookup_ok
      THEN /\ main_res' = "DBus"
           /\ UNCHANGED <<config, disk, saved>>
      ELSE /\ config' = SavedConfig(config, loader_cur, target_speeds, mode)
           /\ IF save_ok
              THEN /\ disk' = <<config'>> /\ saved' = TRUE
                   /\ main_res' = "Ok"
              ELSE /\ main_res' = "ConfigErr"
                   /\ UNCHANGED <<disk, saved>>

\* temps_task.await without `?`: the sampler's error is dropped
main_finish_IgnoresSamplerError ==
    /\ IF main_pc = "join_temps_task"
       THEN /\ t_pc = "done"
            /\ main_pc' = "save_config" /\ main_res' = main_res
            /\ UNCHANGED <<config, disk, saved>>
       ELSE /\ main_pc = "save_config"
            /\ save_config
            /\ main_pc' = "done"
    /\ UNCHANGED <<mode, target_speeds>>
    /\ UNCHANGED <<sig_vars, env_sig_vars, chan_vars, temps_vars, fwd_vars,
                   mgr_vars, ec_vars, bus_vars, ev_q>>

\* temps_task.await? and then the save, which ends main
main_finish ==
    /\ IF main_pc = "join_temps_task"
       THEN /\ t_pc = "done"
            /\ IF t_res = "Ok"
               THEN main_pc' = "save_config" /\ main_res' = main_res
               ELSE main_pc' = "done" /\ main_res' = t_res
            /\ UNCHANGED <<config, disk, saved>>
       ELSE /\ main_pc = "save_config"
            /\ save_config
            /\ main_pc' = "done"
    /\ UNCHANGED <<mode, target_speeds>>
    /\ UNCHANGED <<sig_vars, env_sig_vars, chan_vars, temps_vars, fwd_vars,
                   mgr_vars, ec_vars, bus_vars, ev_q>>

(* --------------------------- specifications ---------------------------- *)
MainStep ==
    \/ main_load_config
    \/ main_dbus
    \/ main_temps_new
    \/ main_open_ec
    \/ main_signals_new
    \/ main_spawn_signal_handler
    \/ main_new_manager
    \/ main_spawn_temps_task
    \/ main_spawn_manager_task
    \/ main_join_signal_handler
    \/ main_join_manager_task
    \/ main_finish

signal_handler ==
    \/ signal_handler_next
    \/ signal_handler_match
    \/ signal_handler_send
    \/ signal_handler_close
    \/ signal_handler_return

temps_task ==
    \/ temps_task_recv
    \/ temps_task_get_temp
    \/ temps_task_send_event

forwarder ==
    \/ forwarder_recv
    \/ forwarder_send_event

manager_task ==
    \/ manager_task_spawn_forwarder
    \/ manager_next_event
    \/ manager_handle
    \/ manager_ec_done
    \/ manager_target_speeds

Next ==
    \/ MainStep
    \/ signal_handler
    \/ temps_task
    \/ forwarder
    \/ manager_task
    \/ signal_deliver
    \/ bus_command

Spec == Init /\ [][Next]_vars

\* the executor runs every task that can take a step; the arrival of a
\* signal or of a bus call is up to the environment
FairSpec ==
    /\ Spec
    /\ WF_vars(MainStep)
    /\ WF_vars(signal_handler)
    /\ WF_vars(temps_task)
    /\ WF_vars(forwarder)
    /\ WF_vars(manager_task)

\* the save block on its own: main at the save (main.rs:169) with all three
\* tasks joined, for every configuration, opened mode, current configuration
\* of the loader and final target speeds
SaveInit ==
    /\ main_pc = "save_config" /\ main_res = "none"
    /\ disk \in {<<>>} \cup {<<c>> : c \in DiskConfigs}
    /\ config = LoadedConfig(disk)
    /\ saved = FALSE
    /\ mode \in Modes
    /\ ec_owner = "manager" /\ ec_users = <<>>
    /\ ec_avail = {mode}
    /\ target_speeds \in SpeedLists
    /\ sig_registered = TRUE /\ sigq = {}
    /\ sig_pc = "done" /\ sig_cur = "none" /\ sig_closed = TRUE
    /\ sig_res = "Ok" /\ hups = 0 /\ terms = 1 /\ sent = 1
    /\ shutdown_q = <<>> /\ tx_alive = FALSE /\ rx_holders = {"main"}
    /\ t_pc = "done" /\ t_res = "Ok" /\ t_temp = 0
    /\ f_pc = "done" /\ f_res = "Ok"
    /\ m_pc = "done" /\ m_res = "Ok" /\ m_cur = <<"none">>
    /\ m_out = target_speeds
    /\ loader_cur \in ConfigNames \cup {NoCurrent}
    /\ mgr_auto = TRUE /\ mgr_config = loader_cur
    /\ mgr_targets = target_speeds
    /\ ev_q = <<>>
    /\ commands = 0

SaveNext == main_finish

SaveSpec == SaveInit /\ [][SaveNext]_vars

(* ------------------------- shared state predicates --------------------- *)
\* startup succeeded: every task is spawned and main is at its joins or past
Started == m_pc # "unspawned"

\* the listener has matched a terminate, interrupt or quit signal
TermReceived == terms > 0

\* under Spec main never gets to the save: the one shutdown message is taken
\* by the sampler or by the forwarder, and main needs both to have had it
SaveNeverReached == main_pc # "save_config" /\ ~saved /\ main_res # "Ok"

(* ------------------------------- claims -------------------------------- *)

\* C1: after the signal listener has sent its shutdown message, both the
\* sampling task and the shutdown forwarder receive the value: neither of
\* them ends its recv with a channel error.
C1_ShutdownReachesBothListeners ==
    sent > 0 =>
        /\ t_res # "ShutdownChannelRecv"
        /\ f_res # "ShutdownChannelRecv"

\* C2: once a terminate, interrupt or quit signal is received (startup having
\* succeeded), the forwarder eventually sends the Shutdown event and the
\* manager task finishes.  An EC error, which ends the manager task by
\* itself, is left to C8.
C2_ForwarderEventuallySendsShutdown ==
    (Started /\ TermReceived)
        ~> ((f_res = "Ok" /\ m_pc = "done") \/ m_res = "ECIO")

\* C3: when main returns after a shutdown signal, with startup succeeded and
\* no sensor error, EC error, bus error or save error, it has joined all
\* tasks, saved the configuration and returns Ok.
C3_GracefulShutdownSaves ==
    ( /\ main_pc = "done" /\ Started /\ TermReceived
      /\ t_res # "Sensor" /\ m_res # "ECIO"
      /\ main_res \notin {"DBus", "ConfigErr"} )
    => (main_res = "Ok" /\ saved)

\* C5: a successful save with a current configuration N and a non-empty list
\* S of final target speeds stores ec_access_mode = the opened mode,
\* selected_fan_configuration = N and target_speeds = S.
C5_SavePersistsLastState ==
    (saved /\ loader_cur # NoCurrent /\ target_speeds # <<>>) =>
        /\ disk # <<>>
        /\ disk[1].ec_access_mode = mode
        /\ disk[1].selected_fan_configuration = loader_cur
        /\ disk[1].target_speeds = target_speeds

\* the example of the specification: "Default" and [42.0, 55.5] are saved
C5_Witness ==
    /\ saved /\ loader_cur = "Default" /\ target_speeds = <<420, 555>>
    /\ disk[1].selected_fan_configuration = "Default"
    /\ disk[1].target_speeds = <<420, 555>>
    /\ disk[1].ec_access_mode = mode
    /\ config.ec_access_mode = mode

C7_SensorErrorEndsProcess ==
    (t_res = "Sensor") ~> (main_pc = "done")

\* C8: once the manager task has ended with an EC error, main eventually
\* returns that error, whether or not a signal is delivered.
C8_EcErrorReachesMain ==
    (m_res = "ECIO") ~> (main_pc = "done" /\ main_res = "ECIO")

\* C9: once a listener's recv or the signal listener's send has failed, main
\* eventually returns an error.
C9_ChannelErrorIsFatal ==
    ( \/ t_res = "ShutdownChannelRecv"
      \/ f_res = "ShutdownChannelRecv"
      \/ sig_res = "ShutdownChannelSend" )
    ~> (main_pc = "done" /\ main_res \notin {"none", "Ok"})

\* C10: while the listener has matched nothing but SIGHUPs it has sent no
\* shutdown message, has not closed the signal stream and is still in its
\* loop; once it has matched a SIGTERM, SIGINT or SIGQUIT it has left the
\* loop to shut down, however many SIGHUPs came before.
C10_HangupIgnored ==
    /\ terms = 0 =>
          /\ sent = 0 /\ ~sig_closed
          /\ sig_pc \in {"unspawned", "next", "match"}
          /\ sig_res = "none"
    /\ terms > 0 => sig_pc \in {"send", "close", "return", "done"}

\* the listener has ignored a SIGHUP and then sent the shutdown message
C10_Witness == hups >= 1 /\ terms = 1 /\ sent = 1

\* C11: the configured access mode is tried first and try_default only when
\* it fails; when either opens, startup continues with the device opened;
\* when both fail, main returns OpenDev before any task is started, with no
\* EC access and no save
C11_OpenDevOnlyWhenNoStrategyWorks ==
    /\ (mode # "none" /\ ~saved) =>
          /\ mode \in ec_avail
          /\ config.ec_access_mode \in ec_avail =>
                mode = config.ec_access_mode
          /\ main_res # "OpenDev"
    /\ (main_pc \notin {"load_config", "dbus", "temps_new", "open_ec"}
          /\ main_res \notin {"DBus", "Sensor"} /\ mode = "none") =>
          /\ ec_avail = {}
          /\ main_pc = "done" /\ main_res = "OpenDev"
    /\ main_res = "OpenDev" =>
          /\ ec_avail = {} /\ mode = "none" /\ ec_owner = "none"
          /\ ~sig_registered /\ sig_pc = "unspawned"
          /\ t_pc = "unspawned" /\ m_pc = "unspawned" /\ f_pc = "unspawned"
          /\ ec_users = <<>> /\ ~saved

\* no strategy opens: main has returned OpenDev
C11_Witness == main_pc = "done" /\ main_res = "OpenDev" /\ ec_avail = {}

\* C12: a configuration that cannot be loaded is not fatal: startup goes on
\* with the built-in default configuration and main returns no error because
\* of it (a ConfigErr can only come from the save after the three joins)
C12_LoadErrorUsesDefault ==
    /\ (disk = <<>> /\ main_pc # "load_config") =>
          /\ config = DefaultConfig
          /\ main_pc = "dbus" => main_res = "none"
    /\ main_res = "ConfigErr" =>
          sig_res = "Ok" /\ m_res = "Ok" /\ t_res = "Ok"

\* nothing could be loaded and the tasks run on the default configuration,
\* the device opened in the default access mode
C12_Witness ==
    /\ disk = <<>> /\ Started /\ main_res = "none"
    /\ config = DefaultConfig /\ mode = DefaultConfig.ec_access_mode

\* the result of a task is an error
IsErr(res) == res \notin {"none", "Ok"}

\* C13: the save is executed only when the signal listener, the manager task
\* and the sampler all returned Ok; when one of them returned an error that
\* main joined, main returns that error and the stored configuration is
\* left unchanged
C13_NoSaveAfterError ==
    /\ (main_pc = "save_config" \/ saved) =>
          sig_res = "Ok" /\ m_res = "Ok" /\ t_res = "Ok"
    /\ (main_pc = "done" /\ Started
          /\ (IsErr(sig_res) \/ IsErr(m_res) \/ IsErr(t_res))) =>
          /\ main_res = (IF IsErr(sig_res) THEN sig_res
                         ELSE IF IsErr(m_res) THEN m_res ELSE t_res)
          /\ ~saved
          /\ disk \in {<<>>} \cup {<<c>> : c \in DiskConfigs}

\* the listener and the manager returned Ok, the sampler an error: main has
\* returned the sampler's error and nothing was saved
C13_Witness ==
    /\ main_pc = "done" /\ sig_res = "Ok" /\ m_res = "Ok"
    /\ IsErr(t_res) /\ main_res = t_res /\ ~saved

\* C14: the listener acts once: at most one shutdown message is ever sent,
\* for the first SIGTERM, SIGINT or SIGQUIT it matches; it then closes its
\* signal handle and leaves the loop, so signals after that one send
\* nothing, and the channel never holds more than one message
C14_ListenerActsOnce ==
    /\ sent <= 1 /\ terms <= 1
    /\ Len(shutdown_q) <= ShutdownCap
    /\ sent = 1 => terms = 1 /\ sig_pc \in {"close", "return", "done"}
    /\ (sent = 1 /\ sig_pc \in {"return", "done"}) => sig_closed
    /\ sig_res = "Ok" => sent = 1 /\ sig_closed /\ sig_pc = "done"

\* the listener has sent its message and returned while a second
\* terminating signal is still pending in the stream
C14_Witness ==
    /\ sent = 1 /\ sig_res = "Ok"
    /\ sigq \cap {SIGTERM, SIGINT, SIGQUIT} # {}

\* the step appends a TempChange event to the manager's event channel
TempChangeSent ==
    /\ Len(ev_q') = Len(ev_q) + 1
    /\ ev_q'[Len(ev_q')][1] = "TempChange"

\* C15: the sampler starts a sample only from a poll in which the timeout
\* elapsed and no shutdown message was received, and a timeout neither ends
\* the task nor is an error; TempChange is sent only by a sampler that has
\* not returned; once it has received the shutdown message it returns Ok
\* and sends no further TempChange
C15_SamplingOnlyOnTimeout ==
    [][/\ (t_pc # "get_temp" /\ t_pc' = "get_temp") =>
             /\ t_pc = "recv"
             /\ shutdown_q = <<>> /\ shutdown_q' = <<>>
             /\ t_res' = "none"
       /\ TempChangeSent => t_pc = "send_event" /\ t_res = "none"
       /\ (t_pc = "recv" /\ shutdown_q' # shutdown_q /\ t_pc' # t_pc) =>
             t_pc' = "done" /\ t_res' = "Ok"
       /\ t_res = "Ok" =>
             t_pc' = "done" /\ t_res' = "Ok" /\ ~TempChangeSent]_vars

\* the sampler sent a sample on a timeout and then received the shutdown
\* message: it has returned Ok, its last sample still in the event channel
C15_Witness ==
    /\ t_res = "Ok" /\ t_pc = "done"
    /\ ev_q # <<>> /\ ev_q[1][1] = "TempChange"

\* the positions of the event channel that hold a Shutdown event
ShutdownEvents(q) == {i \in DOMAIN q : q[i] = <<"Shutdown">>}

\* C16: the Shutdown event is enqueued at most once and never spuriously:
\* only by the forwarder, after the listener matched a terminating signal
\* and sent its message, and after the forwarder (not the sampler) took
\* that message from the shutdown channel
C16_ShutdownEventOnceAndOnlyOnSignal ==
    /\ Cardinality(ShutdownEvents(ev_q)) <= 1
    /\ (f_pc = "send_event" \/ f_res = "Ok") =>
          /\ terms = 1 /\ sent = 1
          /\ shutdown_q = <<>>
          /\ t_res # "Ok"
    /\ (ShutdownEvents(ev_q) # {} \/ m_pc = "target_speeds" \/ m_res = "Ok") =>
          f_res = "Ok" /\ f_pc = "done"

\* the forwarder took the message and its Shutdown event waits in the
\* event channel
C16_Witness ==
    /\ ShutdownEvents(ev_q) # {} /\ f_res = "Ok"
    /\ terms = 1 /\ sent = 1

\* C17: the save keeps the loaded values: without a current configuration
\* in the loader the saved selected_fan_configuration is the loaded one,
\* with an empty final speed list the saved target_speeds are the loaded
\* ones, and ec_access_mode is overwritten with the opened mode in every
\* case
C17_SaveKeepsLoadedValues ==
    [][(~saved /\ saved') =>
         /\ disk' = <<config'>>
         /\ loader_cur = NoCurrent =>
               config'.selected_fan_configuration =
                   config.selected_fan_configuration
         /\ target_speeds = <<>> =>
               config'.target_speeds = config.target_speeds
         /\ config'.ec_access_mode = mode]_vars

\* saved with no current configuration and no final speeds: the stored
\* configuration keeps the loaded name and speeds, its mode replaced by the
\* opened one
C17_Witness ==
    /\ saved /\ loader_cur = NoCurrent /\ target_speeds = <<>>
    /\ disk # <<>>
    /\ disk[1].selected_fan_configuration = "Silent"
    /\ disk[1].target_speeds = <<300, 800>>
    /\ disk[1].ec_access_mode = "RawPort"

\* C18: once startup succeeded and a terminating signal was matched, main
\* eventually returns, with Ok or with an error: no join blocks for ever
C18_MainReturnsAfterSignal == (Started /\ TermReceived) ~> (main_pc = "done")

\* C19: after a successful startup main returns only once a terminating
\* signal has been matched and the listener task has finished (main joins
\* the listener first), whatever the other tasks returned before
C19_ReturnOnlyAfterSignal ==
    (Started /\ main_pc # "join_signal_handler") =>
        /\ terms = 1 /\ sig_pc = "done"
        /\ main_pc = "done" => main_res # "none"

\* the manager failed with an EC error and main has returned it, after the
\* signal ended the listener
C19_Witness ==
    /\ Started /\ main_pc = "done" /\ main_res = "ECIO"
    /\ terms = 1 /\ sig_res = "Ok"


====
